---- MODULE Spec2Model ----
(***************************************************************************)
(* Model of src/aiHelper.js: the schema loader (readPrismaSchema), the     *)
(* provider dispatch (callLLM), the two exposed functions built by         *)
(* createAIFunction (ai, run), and the fence-stripping chains they apply   *)
(* to a completion.                                                        *)
(*                                                                         *)
(* Strings that the code transforms (completions, commands) are sequences  *)
(* whose elements are single characters, except that a run of characters   *)
(* no pattern of the code can match into (a word of a command, such as     *)
(* "await" or "prisma.user.count()") is one element.  BT stands for the    *)
(* backtick character, which a TLA+ string literal cannot hold.            *)
(***************************************************************************)
EXTENDS Integers, Sequences, FiniteSets, TLC

VARIABLES
    env,          \* process.env: the value of each credential variable
    fsys,         \* the schema path handed to createAIFunction and the file behind it
    schema,       \* const schema = readPrismaSchema(schemaPath)
    hasEval,      \* replServer && replServer.eval
    calls,        \* the calls of ai / run made in the session, one record each
    lastCommand,  \* lastCommand, assigned on line 229 without a declaration (a global)
    raw,          \* normalisation study: the input string
    chain,        \* normalisation study: which chain is applied ("ai" or "run")
    out1,         \* normalisation study: the chain applied once
    out2,         \* normalisation study: the chain applied twice
    normPc        \* normalisation study: "off", "raw", "once", "twice"

vars == <<env, fsys, schema, hasEval, calls, lastCommand, raw, chain, out1, out2, normPc>>
mainVars == <<env, fsys, schema, hasEval, calls, lastCommand>>
normVars == <<raw, chain, out1, out2, normPc>>

----------------------------------------------------------------------------
(* Bounds *)

\* number of calls of ai / run made in the session, in any overlap
MaxCalls == 2
\* a normalisation input is the concatenation of at most MaxChunks chunks
MaxChunks == 3

Slots == 1..MaxCalls

----------------------------------------------------------------------------
(* Characters and strings *)

BT == "bt"
NL == "\n"
SP == " "
Whitespace == {SP, NL}

Fence == <<BT, BT, BT>>
FenceJavascript == Fence \o <<"j", "a", "v", "a", "s", "c", "r", "i", "p", "t">>
FenceJs == Fence \o <<"j", "s">>

\* "await prisma.user.findMany()"
CmdFindMany == <<"await", SP, "prisma.user.findMany()">>

\* "await prisma.user.count()"
CmdCount == <<"await", SP, "prisma.user.count()">>

\* "```js\nawait prisma.user.findMany()\n```"
FencedFindMany == FenceJs \o <<NL>> \o CmdFindMany \o <<NL>> \o Fence

\* "prisma.user.count()"
CmdCountNoAwait == <<"prisma.user.count()">>

\* the completions a provider answers with in the model
Completions == {FencedFindMany, CmdCount, CmdCountNoAwait}

MatchesAt(s, i, pat) ==
    /\ i + Len(pat) - 1 <= Len(s)
    /\ SubSeq(s, i, i + Len(pat) - 1) = pat

\* s.replace(/<pat>\n?/g, "") from position i on: left to right, non-overlapping,
\* the optional newline taken when it is there
RECURSIVE ReplaceFrom(_, _, _)
ReplaceFrom(s, i, pat) ==
    IF i > Len(s) THEN <<>>
    ELSE IF MatchesAt(s, i, pat)
         THEN LET j == i + Len(pat)
              IN  ReplaceFrom(s, IF j <= Len(s) /\ s[j] = NL THEN j + 1 ELSE j, pat)
         ELSE <<s[i]>> \o ReplaceFrom(s, i + 1, pat)

RemoveFence(s, pat) == ReplaceFrom(s, 1, pat)

RECURSIVE TrimStart(_)
TrimStart(s) ==
    IF s # <<>> /\ Head(s) \in Whitespace THEN TrimStart(Tail(s)) ELSE s

RECURSIVE TrimEnd(_)
TrimEnd(s) ==
    IF s # <<>> /\ s[Len(s)] \in Whitespace THEN TrimEnd(SubSeq(s, 1, Len(s) - 1)) ELSE s

\* String.prototype.trim
Trim(s) == TrimEnd(TrimStart(s))

\* the chain in ai (lines 194-197): two replaces, then trim
AiClean(s) ==
    Trim(RemoveFence(RemoveFence(s, FenceJavascript), FenceJs))

\* the chain in run (lines 220-224): three replaces, then trim
RunClean(s) ==
    Trim(RemoveFence(RemoveFence(RemoveFence(s, FenceJavascript), FenceJs), Fence))

HasFence(s) == \E i \in 1..Len(s) : MatchesAt(s, i, Fence)

----------------------------------------------------------------------------
(* The environment and the schema loader *)

Creds == {"OPENROUTER_API_KEY", "OPENAI_API_KEY", "ANTHROPIC_API_KEY"}

\* a variable of process.env is not set, set to the empty string, or set to a key
EnvValues == {"unset", "", "sk-key"}

\* JavaScript truthiness of process.env.X: undefined and "" are falsy
Truthy(x) == x \notin {"unset", ""}

\* the text of a schema file that has content
SchemaSource == "model User { id Int @id }"

\* what is on disk at the schema path
FileStates == {"missing", "unreadable", "empty", "text"}

Null == [isNull |-> TRUE, text |-> ""]
Loaded(t) == [isNull |-> FALSE, text |-> t]

\* readPrismaSchema(schemaPath): path.isAbsolute throws on a path that is not a
\* string and readFileSync throws on a file that cannot be read, both caught;
\* a file that is not there is reported; each of these returns null
readPrismaSchema(pathGiven, file) ==
    IF ~pathGiven THEN Null
    ELSE IF file = "missing" THEN Null
    ELSE IF file = "unreadable" THEN Null
    ELSE IF file = "empty" THEN Loaded("")
    ELSE Loaded(SchemaSource)

\* a check that takes only the empty string for a missing schema
StubbedOnlyWhenEmpty(s) == ~s.isNull /\ s.text = ""

\* if (!schema): null and the empty string are both falsy
Stubbed(s) == s.isNull \/ s.text = ""

----------------------------------------------------------------------------
(* Provider selection in callLLM *)

\* a selection that follows the order of the variables on line 71
SelectProviderOpenAIFirst(e) ==
    IF Truthy(e["OPENAI_API_KEY"]) THEN "OpenAI"
    ELSE IF Truthy(e["ANTHROPIC_API_KEY"]) THEN "Anthropic"
    ELSE IF Truthy(e["OPENROUTER_API_KEY"]) THEN "OpenRouter"
    ELSE "none"

\* the if-chain of lines 80, 107, 132; "none" is the throw of line 156
SelectProvider(e) ==
    IF Truthy(e["OPENROUTER_API_KEY"]) THEN "OpenRouter"
    ELSE IF Truthy(e["OPENAI_API_KEY"]) THEN "OpenAI"
    ELSE IF Truthy(e["ANTHROPIC_API_KEY"]) THEN "Anthropic"
    ELSE "none"

\* line 71: apiKey is truthy
HasApiKey(e) ==
    Truthy(e["OPENAI_API_KEY"]) \/ Truthy(e["ANTHROPIC_API_KEY"]) \/ Truthy(e["OPENROUTER_API_KEY"])

\* the URL each branch fetches (lines 81, 108, 133)
Endpoint(p) ==
    CASE p = "OpenRouter" -> "https://openrouter.ai/api/v1/chat/completions"
      [] p = "OpenAI" -> "https://api.openai.com/v1/chat/completions"
      [] p = "Anthropic" -> "https://api.anthropic.com/v1/messages"

----------------------------------------------------------------------------
(* Values, errors and call records *)

Undefined == [t |-> "undefined", v |-> <<>>]
JsNull == [t |-> "null", v |-> <<>>]
Number42 == [t |-> "number", v |-> <<"4", "2">>]

\* the value a command evaluates to
EvalValues == {Number42}

NoError == <<"none", "", "">>
NoApiKeyError == <<"ConfigError", "", "No API key found">>
NoSupportedKeyError == <<"ConfigError", "", "No supported LLM API key found">>
ApiError(p, body) == <<"ProviderError", p, body>>
NetworkError == <<"FetchError", "", "fetch failed">>
EnvelopeError == <<"TypeError", "", "malformed envelope">>
EvaluationError == <<"EvalError", "", "command failed">>

\* the body text of a non-success response
ErrorBodies == {"rate limited"}

\* the argument of a call: nothing, a number, the empty string, a query
Args == {"undefined", "number", "empty", "find all users"}

Fns == {"ai", "run"}

Idle ==
    [fn |-> "none", arg |-> "undefined", pc |-> "idle", prompt |-> <<>>,
     provider |-> "none", requests |-> <<>>, status |-> "none", content |-> <<>>, clean |-> <<>>,
     evals |-> <<>>, stores |-> <<>>, path |-> "none", logs |-> <<>>,
     err |-> NoError, logged |-> FALSE, settled |-> "pending", result |-> Undefined]

Started(fn, arg) == [Idle EXCEPT !.fn = fn, !.arg = arg]

\* the function returns: its promise is fulfilled with r
Fulfil(call, r) == [call EXCEPT !.pc = "done", !.settled = "fulfilled", !.result = r]

\* the function's promise follows a promise that rejects
Reject(call, e) == [call EXCEPT !.pc = "done", !.settled = "rejected", !.err = e]

\* a query check that lets everything through
ValidQueryAlways(arg) == TRUE

\* !( !query || typeof query !== "string" )  (lines 182, 208)
ValidQuery(arg) == arg \notin {"undefined", "number", "empty"}

\* the catch blocks: ai logs and falls off its end (lines 202-204), run logs and
\* returns null (lines 246-249)
Caught(call, e) ==
    Fulfil([call EXCEPT !.err = e, !.logged = TRUE,
                        !.logs = Append(@, IF call.fn = "ai" THEN "error generating command"
                                                             ELSE "error")],
           IF call.fn = "ai" THEN Undefined ELSE JsNull)

----------------------------------------------------------------------------
(* The steps of a call, as functions of its record *)

\* the stubs createAIFunction returns without a schema (lines 169-178): ai is a
\* plain function, run an async one
StubCall(fn, arg) ==
    IF fn = "ai"
    THEN [Started(fn, arg) EXCEPT !.pc = "done", !.settled = "returned",
                                  !.logs = <<"Could not find Prisma schema">>]
    ELSE Fulfil([Started(fn, arg) EXCEPT !.logs = <<"Schema not loaded">>], Undefined)

\* a dispatch that goes to the OpenAI branch when no key is set
DispatchWithoutKeyCheck(call, e) ==
    LET p == IF SelectProvider(e) = "none" THEN "OpenAI" ELSE SelectProvider(e)
    IN  [call EXCEPT !.pc = "fetch", !.provider = p,
                     !.requests = Append(@, Endpoint(p))]

\* callLLM up to its await of fetch (lines 69-95, 107-120, 132-145, 156); what it
\* throws is caught by the caller's catch block
Dispatch(call, e) ==
    IF ~HasApiKey(e) THEN Caught(call, NoApiKeyError)
    ELSE IF SelectProvider(e) = "none" THEN Caught(call, NoSupportedKeyError)
    ELSE [call EXCEPT !.pc = "fetch", !.provider = SelectProvider(e),
                      !.requests = Append(@, Endpoint(SelectProvider(e)))]

\* ai / run from their entry to the await of callLLM (lines 181-191, 207-217)
Begin(fn, arg, sch, e) ==
    IF ~ValidQuery(arg)
    THEN Fulfil([Started(fn, arg) EXCEPT !.logs = <<"usage">>], Undefined)
    ELSE Dispatch([Started(fn, arg) EXCEPT !.logs = <<"generating">>,
                                           !.prompt = <<sch.text, arg>>], e)

\* a handler of a non-success response that sends the request again
RetryAfterErrorBody(call, body) ==
    [call EXCEPT !.pc = "fetch", !.status = "none",
                 !.requests = Append(@, Endpoint(call.provider))]

\* response.text() has resolved: throw "<provider> API error: <body>"
\* (lines 97-100, 122-125, 147-150), caught by the caller's catch block
AfterErrorBody(call, body) == Caught(call, ApiError(call.provider, body))

\* an ai that stores what it generated in lastCommand
AiDisplayStoring(call, command, last) ==
    [call |-> Fulfil([call EXCEPT !.content = command, !.clean = AiClean(command),
                                  !.stores = Append(@, AiClean(command)),
                                  !.logs = Append(@, "generated command")],
                     Undefined),
     last |-> [declared |-> TRUE, value |-> AiClean(command)]]

\* ai after callLLM has returned (lines 193-201, and falling off the end): the
\* new record of the call and the new lastCommand
AiDisplay(call, command, last) ==
    [call |-> Fulfil([call EXCEPT !.content = command, !.clean = AiClean(command),
                                  !.logs = Append(@, "generated command")],
                     Undefined),
     last |-> last]

\* the command starts with "await "
Awaits(cmd) == MatchesAt(cmd, 1, <<"await", SP>>)

\* what eval(cleanCommand) of line 245 can do: an await outside an async function
\* is a syntax error; any other command may throw, give a value, or give a promise
DirectOutcomes(cmd) ==
    IF Awaits(cmd) THEN {"throws"} ELSE {"throws", "value", "promise"}

\* what replServer.eval hands to its callback: an error, the value (the awaited
\* value for a command that awaits), or the promise a command without await
\* evaluates to
SessionOutcomes(cmd) ==
    IF Awaits(cmd) THEN {"err", "value"} ELSE {"err", "value", "promise"}

\* run after callLLM has returned (lines 219-245): clean, store, evaluate; the
\* new record of the call and the new lastCommand
RunExecute(call, command, sessionEval, direct, v) ==
    LET clean == RunClean(command)
        c1 == [call EXCEPT !.content = command, !.clean = clean,
                           !.stores = Append(@, clean),
                           !.logs = @ \o <<"generated", "executing">>,
                           !.evals = Append(@, clean)]
        c2 == [c1 EXCEPT !.path = "direct"]
    IN  [call |-> IF sessionEval
                  THEN [c1 EXCEPT !.path = "session", !.pc = "eval"]
                  ELSE CASE direct = "throws" -> Caught(c2, EvaluationError)
                         [] direct = "value" -> Fulfil(c2, v)
                         [] direct = "promise" -> [c2 EXCEPT !.pc = "promise"],
         last |-> [declared |-> TRUE, value |-> clean]]

\* the callback of replServer.eval (lines 234-241)
AfterEval(call, outcome, v) ==
    CASE outcome = "err" ->
            Fulfil([call EXCEPT !.err = EvaluationError, !.logged = TRUE,
                                !.logs = Append(@, "error")], JsNull)
      [] outcome = "value" -> Fulfil(call, v)
      [] outcome = "promise" -> [call EXCEPT !.pc = "promise"]

\* the promise run returned (line 245) or resolved its own promise with
\* (line 239) settles: run's promise follows it
AfterPromise(call, ok, v) ==
    IF ok THEN Fulfil(call, v) ELSE Reject(call, EvaluationError)

----------------------------------------------------------------------------
(* Actions *)

Free(c) == calls[c].pc = "idle"

UnchangedConfig == UNCHANGED <<env, fsys, schema, hasEval>>

\* a call of a stub
InvokeStub(c, fn, arg) ==
    /\ Stubbed(schema)
    /\ Free(c)
    /\ calls' = [calls EXCEPT ![c] = StubCall(fn, arg)]
    /\ UNCHANGED lastCommand
    /\ UnchangedConfig /\ UNCHANGED normVars

\* a call of ai or run, up to its first suspension
Invoke(c, fn, arg) ==
    /\ ~Stubbed(schema)
    /\ Free(c)
    /\ calls' = [calls EXCEPT ![c] = Begin(fn, arg, schema, env)]
    /\ UNCHANGED lastCommand
    /\ UnchangedConfig /\ UNCHANGED normVars

\* fetch resolves with a response
FetchResolves(c, ok) ==
    /\ calls[c].pc = "fetch"
    /\ calls' = [calls EXCEPT ![c].status = IF ok THEN "ok" ELSE "notok",
                              ![c].pc = IF ok THEN "json" ELSE "text"]
    /\ UNCHANGED lastCommand
    /\ UnchangedConfig /\ UNCHANGED normVars

\* fetch rejects
FetchRejects(c) ==
    /\ calls[c].pc = "fetch"
    /\ calls' = [calls EXCEPT ![c] = Caught(calls[c], NetworkError)]
    /\ UNCHANGED lastCommand
    /\ UnchangedConfig /\ UNCHANGED normVars

\* response.text() resolves
TextResolves(c, body) ==
    /\ calls[c].pc = "text"
    /\ calls' = [calls EXCEPT ![c] = AfterErrorBody(calls[c], body)]
    /\ UNCHANGED lastCommand
    /\ UnchangedConfig /\ UNCHANGED normVars

\* response.json() rejects, or the envelope lacks the completion
JsonMalformed(c) ==
    /\ calls[c].pc = "json"
    /\ calls' = [calls EXCEPT ![c] = Caught(calls[c], EnvelopeError)]
    /\ UNCHANGED lastCommand
    /\ UnchangedConfig /\ UNCHANGED normVars

\* response.json() resolves, callLLM returns the trimmed completion to ai
JsonResolvesAi(c, completion) ==
    /\ calls[c].pc = "json"
    /\ calls[c].fn = "ai"
    /\ LET r == AiDisplay(calls[c], Trim(completion), lastCommand)
       IN  /\ calls' = [calls EXCEPT ![c] = r.call]
           /\ lastCommand' = r.last
    /\ UnchangedConfig /\ UNCHANGED normVars

\* response.json() resolves, callLLM returns the trimmed completion to run
JsonResolvesRun(c, completion, direct, v) ==
    /\ calls[c].pc = "json"
    /\ calls[c].fn = "run"
    /\ direct \in DirectOutcomes(RunClean(Trim(completion)))
    /\ LET r == RunExecute(calls[c], Trim(completion), hasEval, direct, v)
       IN  /\ calls' = [calls EXCEPT ![c] = r.call]
           /\ lastCommand' = r.last
    /\ UnchangedConfig /\ UNCHANGED normVars

\* replServer.eval calls back
EvalCallback(c, outcome, v) ==
    /\ calls[c].pc = "eval"
    /\ outcome \in SessionOutcomes(calls[c].clean)
    /\ calls' = [calls EXCEPT ![c] = AfterEval(calls[c], outcome, v)]
    /\ UNCHANGED lastCommand
    /\ UnchangedConfig /\ UNCHANGED normVars

\* the promise the command evaluated to settles
PromiseSettles(c, ok, v) ==
    /\ calls[c].pc = "promise"
    /\ calls' = [calls EXCEPT ![c] = AfterPromise(calls[c], ok, v)]
    /\ UNCHANGED lastCommand
    /\ UnchangedConfig /\ UNCHANGED normVars

Init ==
    /\ env \in [Creds -> EnvValues]
    /\ fsys \in [pathGiven : BOOLEAN, file : FileStates]
    /\ ~fsys.pathGiven => fsys.file = "missing"
    /\ schema = readPrismaSchema(fsys.pathGiven, fsys.file)
    /\ hasEval \in BOOLEAN
    /\ calls = [c \in Slots |-> Idle]
    /\ lastCommand = [declared |-> FALSE, value |-> <<>>]
    /\ raw = <<>> /\ chain = "none" /\ out1 = <<>> /\ out2 = <<>> /\ normPc = "off"

Next ==
    \/ \E c \in Slots, fn \in Fns, arg \in Args : InvokeStub(c, fn, arg)
    \/ \E c \in Slots, fn \in Fns, arg \in Args : Invoke(c, fn, arg)
    \/ \E c \in Slots, ok \in BOOLEAN : FetchResolves(c, ok)
    \/ \E c \in Slots : FetchRejects(c)
    \/ \E c \in Slots, body \in ErrorBodies : TextResolves(c, body)
    \/ \E c \in Slots : JsonMalformed(c)
    \/ \E c \in Slots, completion \in Completions : JsonResolvesAi(c, completion)
    \/ \E c \in Slots, completion \in Completions, v \in EvalValues,
          direct \in {"throws", "value", "promise"} : JsonResolvesRun(c, completion, direct, v)
    \/ \E c \in Slots, v \in EvalValues,
          outcome \in {"err", "value", "promise"} : EvalCallback(c, outcome, v)
    \/ \E c \in Slots, ok \in BOOLEAN, v \in EvalValues : PromiseSettles(c, ok, v)

Spec == Init /\ [][Next]_vars

----------------------------------------------------------------------------
(* The two fence-stripping chains on their own: every input built from at  *)
(* most MaxChunks chunks, each chain applied once and then once more.      *)

Chunks ==
    {<<BT>>, Fence, FenceJs, FenceJavascript, <<"j">>, <<"s">>, <<"j", "s">>,
     <<NL>>, <<SP>>, <<"x">>}

RECURSIVE Concat(_)
Concat(ss) == IF ss = <<>> THEN <<>> ELSE Head(ss) \o Concat(Tail(ss))

Inputs == {Concat(ss) : ss \in UNION {[1..n -> Chunks] : n \in 0..MaxChunks}}

Clean(ch, s) == IF ch = "ai" THEN AiClean(s) ELSE RunClean(s)

Normalize(ch) ==
    /\ normPc = "raw"
    /\ chain' = ch
    /\ out1' = Clean(ch, raw)
    /\ normPc' = "once"
    /\ UNCHANGED <<raw, out2>>
    /\ UNCHANGED mainVars

NormalizeAgain ==
    /\ normPc = "once"
    /\ out2' = Clean(chain, out1)
    /\ normPc' = "twice"
    /\ UNCHANGED <<raw, chain, out1>>
    /\ UNCHANGED mainVars

NormInit ==
    /\ env = [k \in Creds |-> "unset"]
    /\ fsys = [pathGiven |-> TRUE, file |-> "text"]
    /\ schema = readPrismaSchema(fsys.pathGiven, fsys.file)
    /\ hasEval = TRUE
    /\ calls = [c \in Slots |-> Idle]
    /\ lastCommand = [declared |-> FALSE, value |-> <<>>]
    /\ raw \in Inputs
    /\ chain = "none" /\ out1 = <<>> /\ out2 = <<>> /\ normPc = "raw"

NormNext ==
    \/ \E ch \in Fns : Normalize(ch)
    \/ NormalizeAgain

NormSpec == NormInit /\ [][NormNext]_vars

----------------------------------------------------------------------------
(* Properties *)

AnyCredential == \E k \in Creds : Truthy(env[k])

\* the order and the endpoints the specification gives
Priority == <<"OPENROUTER_API_KEY", "OPENAI_API_KEY", "ANTHROPIC_API_KEY">>
EndpointOfCredential ==
    [k \in Creds |->
        CASE k = "OPENROUTER_API_KEY" -> "https://openrouter.ai/api/v1/chat/completions"
          [] k = "OPENAI_API_KEY" -> "https://api.openai.com/v1/chat/completions"
          [] k = "ANTHROPIC_API_KEY" -> "https://api.anthropic.com/v1/messages"]

\* the credential is present and every credential before it in the order is not
HighestPresent(i) ==
    /\ Truthy(env[Priority[i]])
    /\ \A j \in 1..(i - 1) : ~Truthy(env[Priority[j]])

\* the call has reached callLLM: its prompt is built
Generating(call) == call.prompt # <<>>

\* C1: with at least one credential present (set to a non-empty value), a call
\* that reaches callLLM issues exactly one request, for as long as it runs and
\* once it is done, and the request goes to the endpoint of the first credential
\* present in the order OpenRouter, OpenAI, Anthropic; no call issues more than one.
C1_ProviderPriority ==
    \A c \in Slots :
        /\ Len(calls[c].requests) <= 1
        /\ \A i \in 1..3 :
              Generating(calls[c]) /\ HighestPresent(i)
                  => calls[c].requests = <<EndpointOfCredential[Priority[i]]>>

C1_Witness ==
    \E c \in Slots :
        /\ calls[c].pc = "done"
        /\ \A k \in Creds : Truthy(env[k])
        /\ calls[c].requests = <<"https://openrouter.ai/api/v1/chat/completions">>

\* C2: with no credential present, a call of ai or run with a query string is
\* over without a request: the "No API key found" error is caught and printed,
\* ai resolves to undefined (run to null), nothing is evaluated.
C2_NoCredentialNoRequest ==
    \A c \in Slots :
        (/\ ~AnyCredential
         /\ ~Stubbed(schema)
         /\ calls[c].pc # "idle"
         /\ calls[c].arg = "find all users")
            => /\ calls[c].pc = "done"
               /\ calls[c].requests = <<>>
               /\ calls[c].evals = <<>>
               /\ calls[c].err = NoApiKeyError
               /\ calls[c].logged
               /\ calls[c].settled = "fulfilled"
               /\ calls[c].result = IF calls[c].fn = "ai" THEN Undefined ELSE JsNull

C2_Witness ==
    \E c \in Slots :
        /\ calls[c].fn = "ai"
        /\ calls[c].arg = "find all users"
        /\ calls[c].pc = "done"
        /\ \A k \in Creds : ~Truthy(env[k])
        /\ \E k \in Creds : env[k] = ""
        /\ calls[c].err[1] = "ConfigError"

\* C3: a call whose response had a non-success status has sent one request and
\* sends no other, evaluates and stores nothing, and ends with the provider error
\* that carries the body text, printed; run resolves to null (ai to undefined).
C3_ProviderFailureTerminal ==
    \A c \in Slots :
        calls[c].status = "notok"
            => /\ Len(calls[c].requests) = 1
               /\ calls[c].evals = <<>>
               /\ calls[c].stores = <<>>
               /\ calls[c].pc \in {"text", "done"}
               /\ calls[c].pc = "done"
                    => /\ calls[c].err[1] = "ProviderError"
                       /\ Endpoint(calls[c].err[2]) = calls[c].requests[1]
                       /\ calls[c].err[3] \in ErrorBodies
                       /\ calls[c].logged
                       /\ calls[c].settled = "fulfilled"
                       /\ calls[c].result = IF calls[c].fn = "ai" THEN Undefined ELSE JsNull

C3_Witness ==
    \E c \in Slots :
        /\ calls[c].fn = "run"
        /\ calls[c].status = "notok"
        /\ calls[c].pc = "done"
        /\ Truthy(env["OPENROUTER_API_KEY"]) /\ Truthy(env["OPENAI_API_KEY"])
        /\ calls[c].err = ApiError("OpenRouter", "rate limited")

\* C4: an ai call whose completion was "```js\nawait prisma.user.findMany()\n```"
\* resolves to the string "await prisma.user.findMany()", and what it shows
\* holds no fence.
C4_AiResolvesToCommand ==
    \A c \in Slots :
        (/\ calls[c].fn = "ai"
         /\ calls[c].pc = "done"
         /\ calls[c].content = FencedFindMany)
            => /\ calls[c].result = [t |-> "string", v |-> CmdFindMany]
               /\ calls[c].clean = CmdFindMany

\* C5: each chain (ai's and run's) applied twice gives what it gives applied
\* once, and its output holds no triple backtick.
C5_NormalizeIdempotent ==
    normPc = "twice" => out2 = out1 /\ ~HasFence(out1)

\* the same for the chain of run alone
RunChainIdempotent ==
    normPc = "twice" /\ chain = "run" => out2 = out1 /\ ~HasFence(out1)

\* the schema file is not there or cannot be read, or no path was given
SchemaNotFound == ~fsys.pathGiven \/ fsys.file \in {"missing", "unreadable"}

StubMessage(fn) ==
    IF fn = "ai" THEN "Could not find Prisma schema" ELSE "Schema not loaded"

\* C6: when the schema was not found, every call of ai or run, whatever its
\* argument and the credentials, is over at once: it prints its fixed message
\* and nothing else, builds no prompt, sends no request, evaluates nothing.
C6_SchemaNotFoundStubs ==
    \A c \in Slots :
        SchemaNotFound /\ calls[c].pc # "idle"
            => /\ calls[c].pc = "done"
               /\ calls[c].logs = <<StubMessage(calls[c].fn)>>
               /\ calls[c].prompt = <<>>
               /\ calls[c].requests = <<>>
               /\ calls[c].evals = <<>>
               /\ calls[c].stores = <<>>
               /\ calls[c].settled \in {"returned", "fulfilled"}
               /\ calls[c].result = Undefined

C6_Witness ==
    \E c \in Slots :
        /\ fsys.pathGiven /\ fsys.file = "unreadable"
        /\ AnyCredential
        /\ calls[c].fn = "run"
        /\ calls[c].arg = "find all users"
        /\ calls[c].pc = "done"

\* C7: every call that is over is fulfilled (or has returned), and one that
\* failed has printed its error and gives null or undefined.
C7_NoFailureEscapes ==
    \A c \in Slots :
        calls[c].pc = "done"
            => /\ calls[c].settled \in {"fulfilled", "returned"}
               /\ calls[c].err # NoError
                    => calls[c].logged /\ calls[c].result \in {Undefined, JsNull}

\* the same for the calls whose command did not evaluate to a promise
NoFailureEscapesWithoutPromise ==
    \A c \in Slots :
        calls[c].pc = "done" /\ ~(calls[c].settled = "rejected" /\ calls[c].path # "none")
            => /\ calls[c].settled \in {"fulfilled", "returned"}
               /\ calls[c].err # NoError
                    => calls[c].logged /\ calls[c].result \in {Undefined, JsNull}

C9_EmptySchemaIsLoaded ==
    fsys.pathGiven /\ fsys.file = "empty"
        => /\ ~schema.isNull
           /\ \A c \in Slots :
                 calls[c].pc # "idle" /\ calls[c].arg = "find all users"
                     => Generating(calls[c])

====
